---------------------------- MODULE Spec2Model ----------------------------
(***************************************************************************)
(* Request validation in express-validator-example.                        *)
(*                                                                         *)
(* Three POST routes share the controller addUser:                         *)
(*   /traditional   userDataValidate (hand written if-checks)              *)
(*   /chainApi      userDataValidateChainableAPI (one middleware per field)*)
(*   /schama-based  checkSchema(userDataValidateSchemaBased)               *)
(*                                                                         *)
(* A request is followed from its arrival through the middlewares of its   *)
(* route to the response.  JavaScript values are records [t, s, n]: t is   *)
(* the typeof tag, s the characters of a string, n a number.               *)
(***************************************************************************)
EXTENDS Integers, Sequences, FiniteSets

VARIABLES route, body, pc, idx, running, pending, contexts, responses, raised, saved

vars == <<route, body, pc, idx, running, pending, contexts, responses, raised, saved>>

(***************************************************************************)
(* JavaScript values                                                       *)
(***************************************************************************)
Undefined == [t |-> "undefined", s |-> <<>>, n |-> 0]

Null == [t |-> "null", s |-> <<>>, n |-> 0]

Str(chars) == [t |-> "string", s |-> chars, n |-> 0]

Num(k) == [t |-> "number", s |-> <<>>, n |-> k]

\* !value
Falsy(v) ==
    \/ v.t \in {"undefined", "null"}
    \/ v.t = "string" /\ v.s = <<>>
    \/ v.t = "number" /\ v.n = 0

Digits == <<"0", "1", "2", "3", "4", "5", "6", "7", "8", "9">>

IsDigit(c) == \E d \in 1..10 : Digits[d] = c

DigitVal(c) == (CHOOSE d \in 1..10 : Digits[d] = c) - 1

RECURSIVE NumChars(_)
\* String(n) for a natural number
NumChars(k) ==
    IF k < 10 THEN <<Digits[k + 1]>>
    ELSE Append(NumChars(k \div 10), Digits[(k % 10) + 1])

\* express-validator's toString: what a standard validator is handed
toString(v) ==
    CASE v.t = "string" -> v.s
      [] v.t = "number" -> NumChars(v.n)
      [] OTHER -> <<>>

(***************************************************************************)
(* Constants of the validation rules                                       *)
(***************************************************************************)
MinPasswordLength == 5

PhoneNumberLength == 10

BadRequest == 400

Genders == {<<"M", "a", "l", "e">>, <<"F", "e", "m", "a", "l", "e">>, <<"O", "t", "h", "e", "r">>}

(***************************************************************************)
(* Rules: the items of a validation chain                                  *)
(***************************************************************************)
Rule(kind, msg, checkFalsy, min) == [kind |-> kind, msg |-> msg, checkFalsy |-> checkFalsy, min |-> min]

IndexOf(chars, c) ==
    IF \E i \in 1..Len(chars) : chars[i] = c
    THEN CHOOSE i \in 1..Len(chars) : chars[i] = c /\ \A j \in 1..(i - 1) : chars[j] # c
    ELSE 0

\* local-part@domain, the domain made of at least two non-empty labels
IsEmail(chars) ==
    LET at == IndexOf(chars, "@")
        domain == SubSeq(chars, at + 1, Len(chars))
    IN  /\ at > 1
        /\ IndexOf(domain, "@") = 0
        /\ Len(domain) >= 3
        /\ domain[1] # "."
        /\ domain[Len(domain)] # "."
        /\ IndexOf(domain, ".") > 0
        /\ \A i \in 1..(Len(domain) - 1) : ~(domain[i] = "." /\ domain[i + 1] = ".")

\* YYYY/MM/DD or YYYY-MM-DD
IsDate(chars) ==
    /\ Len(chars) = 10
    /\ chars[5] \in {"/", "-"}
    /\ chars[8] \in {"/", "-"}
    /\ \A i \in {1, 2, 3, 4, 6, 7, 9, 10} : IsDigit(chars[i])
    /\ LET month == 10 * DigitVal(chars[6]) + DigitVal(chars[7])
           day == 10 * DigitVal(chars[9]) + DigitVal(chars[10])
       IN  month \in 1..12 /\ day \in 1..31

\* a synchronous rule applied to one value
Passes(rule, value) ==
    CASE rule.kind = "exists" -> IF rule.checkFalsy THEN ~Falsy(value) ELSE value.t # "undefined"
      [] rule.kind = "isString" -> value.t = "string"
      [] rule.kind = "isLength" -> Len(toString(value)) >= rule.min
      [] rule.kind = "isEmail" -> IsEmail(toString(value))
      [] rule.kind = "isIn" -> toString(value) \in Genders
      [] rule.kind = "isDate" -> IsDate(toString(value))
      [] OTHER -> TRUE

NoPromise == [state |-> "none", reason |-> ""]

\* the custom rule of phoneNumber: what calling it gives
PhoneNumberCustom(value) ==
    IF value.t \in {"undefined", "null"}
    THEN [state |-> "thrown", reason |-> "Cannot read properties of null (reading 'length')"]
    ELSE IF ~(value.t = "string" /\ Len(value.s) = PhoneNumberLength)
         THEN [state |-> "rejected", reason |-> "Phone number should be 10 digits"]
         ELSE [state |-> "returned", reason |-> ""]


(***************************************************************************)
(* The chain API definition: one chain per field, in declaration order     *)
(***************************************************************************)
Chain(path, optional, message, items) ==
    [path |-> path, optional |-> optional, message |-> message, items |-> items]

userDataValidateChainableAPI ==
    << Chain("userName", FALSE, "",
             << Rule("exists", "User name is required", TRUE, 0),
                Rule("isString", "User name should be string", FALSE, 0) >>),
       Chain("password", FALSE, "",
             << Rule("exists", "Password is required", FALSE, 0),
                Rule("isString", "Password should be string", FALSE, 0),
                Rule("isLength", "Password should be at least 5 characters", FALSE, MinPasswordLength) >>),
       Chain("email", TRUE, "",
             << Rule("isEmail", "Provide valid email", FALSE, 0) >>),
       Chain("gender", TRUE, "",
             << Rule("isString", "Gender should be string", FALSE, 0),
                Rule("isIn", "Gender value is invalid", FALSE, 0) >>),
       Chain("dateOfBirth", TRUE, "",
             << Rule("isDate", "DOB should be valid date", FALSE, 0) >>),
       Chain("phoneNumber", TRUE, "",
             << Rule("isString", "phone number should be string", FALSE, 0),
                Rule("custom", "", FALSE, 0) >>) >>

(***************************************************************************)
(* The schema object: per field, its keys in the order written             *)
(***************************************************************************)
Key(name, errorMessage, checkFalsy, min) ==
    [name |-> name, errorMessage |-> errorMessage, checkFalsy |-> checkFalsy, min |-> min]

userDataValidateSchemaBased ==
    << [field |-> "userName",
        keys |-> << Key("exists", "User name is required", TRUE, 0),
                    Key("isString", "User name should be string", FALSE, 0) >>],
       [field |-> "password",
        keys |-> << Key("exists", "Password is required", FALSE, 0),
                    Key("isString", "password should be string", FALSE, 0),
                    Key("isLength", "Password should be at least 5 characters", FALSE, MinPasswordLength) >>],
       [field |-> "email",
        keys |-> << Key("isEmail", "Please provide valid email", FALSE, 0) >>],
       [field |-> "gender",
        keys |-> << Key("isString", "Gender should be string", FALSE, 0),
                    Key("isIn", "Gender is invalid", FALSE, 0) >>],
       [field |-> "dateOfBirth",
        keys |-> << Key("isDate", "DOB should be string", FALSE, 0) >>],
       [field |-> "phoneNumber",
        keys |-> << Key("isString", "phone number should be string", FALSE, 0),
                    Key("options", "", FALSE, 0),
                    Key("errorMessage", "Phone number should be 10 digits", FALSE, 0) >>] >>

\* the keys checkSchema does not read as methods
protectedNames == {"errorMessage", "in"}

\* the methods a validation chain has, among the names used here
ChainMethods == {"exists", "isString", "isLength", "isEmail", "isIn", "isDate", "custom", "optional", "bail"}

\* the schema's field-level errorMessage, the chain's default message
SchemaMessage(keys) ==
    IF \E i \in 1..Len(keys) : keys[i].name = "errorMessage"
    THEN keys[CHOOSE i \in 1..Len(keys) : keys[i].name = "errorMessage"].errorMessage
    ELSE ""

IsMethodKey(k) == k.name \notin protectedNames /\ k.name \in ChainMethods /\ k.name # "optional"

RECURSIVE SchemaItems(_)
SchemaItems(keys) ==
    IF keys = <<>> THEN <<>>
    ELSE LET k == Head(keys)
         IN  IF IsMethodKey(k)
             THEN <<Rule(k.name, k.errorMessage, k.checkFalsy, k.min)>> \o SchemaItems(Tail(keys))
             ELSE SchemaItems(Tail(keys))

\* checkSchema: one chain per field of the schema, in the order of its keys
checkSchema(schema) ==
    [f \in 1..Len(schema) |->
        Chain(schema[f].field,
              \E i \in 1..Len(schema[f].keys) : schema[f].keys[i].name = "optional",
              SchemaMessage(schema[f].keys),
              SchemaItems(schema[f].keys))]

(***************************************************************************)
(* Running one chain against the request                                   *)
(***************************************************************************)
\* context.addError: the rule's message, else the chain's, else the default
FieldError(chain, value, message) ==
    [value |-> value,
     msg |-> IF message # "" THEN message
             ELSE IF chain.message # "" THEN chain.message ELSE "Invalid value",
     param |-> chain.path,
     location |-> "body"]

RunResult(errors, promise, at, threw) ==
    [errors |-> errors, pending |-> promise, at |-> at, threw |-> threw]

RECURSIVE RunItemsFailFast(_, _, _, _, _)
\* RunItems as if every chain bailed: the run ends at the first failing rule
RunItemsFailFast(chain, i, value, errs, threw) ==
    IF i > Len(chain.items) \/ errs # <<>> THEN RunResult(errs, NoPromise, Len(chain.items) + 1, threw)
    ELSE LET item == chain.items[i]
         IN  CASE item.kind = "bail" -> RunItemsFailFast(chain, i + 1, value, errs, threw)
               [] item.kind = "custom" ->
                    LET r == PhoneNumberCustom(value)
                    IN  CASE r.state = "thrown" ->
                               RunItemsFailFast(chain, i + 1, value,
                                        Append(errs, FieldError(chain, value, IF item.msg # "" THEN item.msg ELSE r.reason)),
                                        TRUE)
                          [] r.state = "rejected" -> RunResult(errs, r, i, threw)
                          [] OTHER -> RunItemsFailFast(chain, i + 1, value, errs, threw)
               [] OTHER ->
                    IF Passes(item, value) THEN RunItemsFailFast(chain, i + 1, value, errs, threw)
                    ELSE RunItemsFailFast(chain, i + 1, value, Append(errs, FieldError(chain, value, item.msg)), threw)

RECURSIVE RunItems(_, _, _, _, _)
\* the items of a chain from the i-th on, in order, each awaited before the next;
\* stops at a custom rule whose promise is still to settle
RunItems(chain, i, value, errs, threw) ==
    IF i > Len(chain.items) THEN RunResult(errs, NoPromise, i, threw)
    ELSE LET item == chain.items[i]
         IN  CASE item.kind = "bail" ->
                    IF errs # <<>> THEN RunResult(errs, NoPromise, Len(chain.items) + 1, threw)
                    ELSE RunItems(chain, i + 1, value, errs, threw)
               [] item.kind = "custom" ->
                    LET r == PhoneNumberCustom(value)
                    IN  CASE r.state = "thrown" ->
                               RunItems(chain, i + 1, value,
                                        Append(errs, FieldError(chain, value, IF item.msg # "" THEN item.msg ELSE r.reason)),
                                        TRUE)
                          [] r.state = "rejected" -> RunResult(errs, r, i, threw)
                          [] OTHER -> RunItems(chain, i + 1, value, errs, threw)
               [] OTHER ->
                    IF Passes(item, value) THEN RunItems(chain, i + 1, value, errs, threw)
                    ELSE RunItems(chain, i + 1, value, Append(errs, FieldError(chain, value, item.msg)), threw)

\* optional(): an undefined value is not validated at all
Skipped(chain, value) == chain.optional /\ value.t = "undefined"

RunChain(chain, value) ==
    IF Skipped(chain, value) THEN RunResult(<<>>, NoPromise, 0, FALSE)
    ELSE RunItems(chain, 1, value, <<>>, FALSE)

\* the rejected promise of a custom rule settles: its reason is the error
Settled(chain, value, run, promise) ==
    LET item == chain.items[run.at]
    IN  RunItems(chain, run.at + 1, value,
                 Append(run.errors, FieldError(chain, value, IF item.msg # "" THEN item.msg ELSE promise.reason)),
                 FALSE)

\* validationResult reading only the first context stored on the request
validationResultFirstOnly(ctxs) == IF ctxs = <<>> THEN <<>> ELSE Head(ctxs).errors

RECURSIVE Flatten(_)
Flatten(ctxs) == IF ctxs = <<>> THEN <<>> ELSE Head(ctxs).errors \o Flatten(Tail(ctxs))

\* validationResult(req).array()
validationResult(ctxs) == Flatten(ctxs)

\* StoreContext putting the newest context first
StoreContextFirst(ctxs, chain, errors) == <<[path |-> chain.path, errors |-> errors]>> \o ctxs

\* a finished chain stores its context on the request
StoreContext(ctxs, chain, errors) == Append(ctxs, [path |-> chain.path, errors |-> errors])

(***************************************************************************)
(* The request                                                             *)
(***************************************************************************)
Routes == {"traditional", "chainApi", "schemaBased"}

UserNames == {Undefined, Str(<<>>), Str(<<"a", "l", "i", "c", "e">>), Num(7)}

Passwords == {Undefined, Str(<<"t", "e", "t">>), Str(<<"s", "e", "c", "r", "e", "t", "1">>), Num(123456)}

Emails == {Undefined, Str(<<"t", "e", "s", "t", ".", "g", "m", "a", "i", "l">>), Str(<<"a", "@", "b", ".", "c", "o">>)}

GenderValues == {Undefined, Str(<<"M", "a", "l", "e">>), Str(<<"U", "n", "k", "n", "o", "w", "n">>)}

Dates == {Undefined, Str(<<"2", "0", "2", "0", "-", "0", "1", "-", "3", "1">>), Str(<<"2", "0", "2", "0", "-", "1", "3", "-", "0", "1">>)}

PhoneNumbers == {Undefined, Null, Str(<<"1", "2", "3">>), Str(Digits)}

Bodies ==
    [userName : UserNames, password : Passwords, email : Emails,
     gender : GenderValues, dateOfBirth : Dates, phoneNumber : PhoneNumbers]

\* the validation middlewares of a route, in the order the router runs them
Chains(r) ==
    IF r = "chainApi" THEN userDataValidateChainableAPI
    ELSE checkSchema(userDataValidateSchemaBased)

\* express.json() gives {} when nothing was sent
EmptyBody ==
    [userName |-> Undefined, password |-> Undefined, email |-> Undefined,
     gender |-> Undefined, dateOfBirth |-> Undefined, phoneNumber |-> Undefined]

NoRun == [errors |-> <<>>, at |-> 0]

Response(status, success, errors, errorMessage) ==
    [status |-> status, success |-> success, errors |-> errors, errorMessage |-> errorMessage]

Init ==
    /\ route = "none"
    /\ body = EmptyBody
    /\ pc = "idle"
    /\ idx = 0
    /\ running = NoRun
    /\ pending = NoPromise
    /\ contexts = <<>>
    /\ responses = <<>>
    /\ raised = <<>>
    /\ saved = FALSE

\* router.post: a request arrives and enters the first middleware of its route.
\* Requests share no state (everything lives on req and res), so one is followed.
Receive(r, b) ==
    /\ pc = "idle"
    /\ route' = r
    /\ body' = b
    /\ pc' = IF r = "traditional" THEN "userDataValidate" ELSE "validate"
    /\ idx' = IF r = "traditional" THEN 0 ELSE 1
    /\ running' = NoRun
    /\ pending' = NoPromise
    /\ contexts' = <<>>
    /\ responses' = <<>>
    /\ raised' = <<>>
    /\ saved' = FALSE

\* the pattern handed to match() starts with a literal "/" followed by the
\* start-of-input anchor: a match would need a "/" before position 1
TraditionalEmailMatch(chars) ==
    \E p \in 1..Len(chars) : chars[p] = "/" /\ p + 1 = 1

\* the if-checks of userDataValidate, each overwriting the message
TraditionalMessage(b) ==
    LET m1 == IF Falsy(b.userName) THEN "username is required" ELSE ""
        m2 == IF Falsy(b.password) THEN "password is required" ELSE m1
        m3 == IF b.password.t = "string" /\ Len(b.password.s) < MinPasswordLength
              THEN "password should have atleast 5 characters" ELSE m2
    IN  IF TraditionalEmailMatch(b.email.s) THEN "provide valid email" ELSE m3

\* reading .length of undefined or null, or calling .match on a non-string
TraditionalThrows(b) ==
    \/ b.password.t \in {"undefined", "null"}
    \/ b.email.t # "string"

\* next() after userDataValidate: control goes on to addUser
TraditionalNext == "addUser"

userDataValidate ==
    /\ pc = "userDataValidate"
    /\ IF TraditionalThrows(body)
       THEN /\ raised' = Append(raised, "userDataValidate")
            /\ pc' = "error"
            /\ responses' = responses
       ELSE /\ raised' = raised
            /\ responses' = IF TraditionalMessage(body) # ""
                            THEN Append(responses, Response(BadRequest, FALSE, <<>>, TraditionalMessage(body)))
                            ELSE responses
            /\ pc' = TraditionalNext
    /\ UNCHANGED <<route, body, idx, running, pending, contexts, saved>>

\* Proceed that goes straight to the controller once a field has failed
ProceedFailFast(chain, r) ==
    IF r.pending.state = "none"
    THEN /\ contexts' = StoreContext(contexts, chain, r.errors)
         /\ running' = NoRun
         /\ pending' = NoPromise
         /\ IF idx < Len(Chains(route)) /\ r.errors = <<>>
            THEN idx' = idx + 1 /\ pc' = "validate"
            ELSE idx' = 0 /\ pc' = "addUser"
    ELSE /\ contexts' = contexts
         /\ running' = [errors |-> r.errors, at |-> r.at]
         /\ pending' = r.pending
         /\ idx' = idx
         /\ pc' = "await"

\* what follows a chain whose run r has ended or is waiting on a promise
Proceed(chain, r) ==
    IF r.pending.state = "none"
    THEN /\ contexts' = StoreContext(contexts, chain, r.errors)
         /\ running' = NoRun
         /\ pending' = NoPromise
         /\ IF idx < Len(Chains(route))
            THEN idx' = idx + 1 /\ pc' = "validate"
            ELSE idx' = 0 /\ pc' = "addUser"
    ELSE /\ contexts' = contexts
         /\ running' = [errors |-> r.errors, at |-> r.at]
         /\ pending' = r.pending
         /\ idx' = idx
         /\ pc' = "await"

\* the idx-th validation middleware: runs its chain, then calls next()
ValidationMiddleware ==
    /\ pc = "validate"
    /\ LET chain == Chains(route)[idx]
           r == RunChain(chain, body[chain.path])
       IN  /\ Proceed(chain, r)
           /\ raised' = IF r.threw THEN Append(raised, "custom") ELSE raised
    /\ UNCHANGED <<route, body, responses, saved>>

\* the promise a custom rule returned settles; the chain goes on
SettleCustom ==
    /\ pc = "await"
    /\ LET chain == Chains(route)[idx]
           r == Settled(chain, body[chain.path], running, pending)
       IN  /\ Proceed(chain, r)
           /\ raised' = IF r.threw THEN Append(raised, "custom") ELSE raised
    /\ UNCHANGED <<route, body, responses, saved>>

\* the controller
addUser ==
    /\ pc = "addUser"
    /\ LET errors == validationResult(contexts)
           reply == IF errors # <<>> THEN Response(BadRequest, FALSE, errors, "")
                    ELSE Response(200, TRUE, <<>>, "")
       IN  /\ saved' = (errors = <<>>)
           /\ IF responses = <<>>
              THEN /\ responses' = Append(responses, reply)
                   /\ raised' = raised
                   /\ pc' = "done"
              ELSE /\ responses' = responses
                   /\ raised' = Append(raised, "addUser")
                   /\ pc' = "error"
    /\ UNCHANGED <<route, body, idx, running, pending, contexts>>

\* Express's default error handler, reached through next(err) or a throw
FinalHandler ==
    /\ pc = "error"
    /\ responses' = IF responses = <<>> THEN Append(responses, Response(500, FALSE, <<>>, ""))
                    ELSE responses
    /\ pc' = "done"
    /\ UNCHANGED <<route, body, idx, running, pending, contexts, raised, saved>>

Next ==
    \/ \E r \in Routes, b \in Bodies : Receive(r, b)
    \/ userDataValidate
    \/ ValidationMiddleware
    \/ SettleCustom
    \/ addUser
    \/ FinalHandler

Spec == Init /\ [][Next]_vars

(***************************************************************************)
(* A whole validation as one function of the body, for comparing routes    *)
(***************************************************************************)
RECURSIVE Complete(_, _, _)
\* a run followed until no promise is left to settle
Complete(chain, value, r) ==
    IF r.pending.state = "none" THEN r.errors
    ELSE Complete(chain, value, Settled(chain, value, [errors |-> r.errors, at |-> r.at], r.pending))

FullRun(chain, value) == Complete(chain, value, RunChain(chain, value))

RECURSIVE Validate(_, _, _)
\* the errors of the chains from the i-th on, in the order of the chains
Validate(chains, b, i) ==
    IF i > Len(chains) THEN <<>>
    ELSE FullRun(chains[i], b[chains[i].path]) \o Validate(chains, b, i + 1)

(***************************************************************************)
(* Vocabulary of the properties                                            *)
(***************************************************************************)
FieldOrder == <<"userName", "password", "email", "gender", "dateOfBirth", "phoneNumber">>

FieldIndex(path) == CHOOSE i \in 1..Len(FieldOrder) : FieldOrder[i] = path

Validated == route \in {"chainApi", "schemaBased"}

Answered == pc = "done" /\ Validated

\* the errors of the response sent to the client
Sent == IF responses = <<>> THEN <<>> ELSE responses[1].errors

ErrorsOn(errors, path) == SelectSeq(errors, LAMBDA e : e.param = path)

Params(errors) == {errors[i].param : i \in 1..Len(errors)}

Msgs(errors) == [i \in 1..Len(errors) |-> errors[i].msg]

\* how many errors the contexts before the i-th hold
RECURSIVE Offset(_, _)
Offset(ctxs, i) == IF i <= 1 THEN 0 ELSE Offset(ctxs, i - 1) + Len(ctxs[i - 1].errors)

\* whether rule item fails on value, judged on its own
Fails(item, value) ==
    CASE item.kind = "bail" -> FALSE
      [] item.kind = "custom" -> PhoneNumberCustom(value).state # "returned"
      [] OTHER -> ~Passes(item, value)

MsgOf(item, value) ==
    IF item.msg # "" THEN item.msg ELSE PhoneNumberCustom(value).reason

RECURSIVE FailingMsgs(_, _, _)
\* the messages of the rules of chain that fail on value, in declaration order
FailingMsgs(chain, value, i) ==
    IF i > Len(chain.items) THEN <<>>
    ELSE IF Fails(chain.items[i], value)
         THEN <<MsgOf(chain.items[i], value)>> \o FailingMsgs(chain, value, i + 1)
         ELSE FailingMsgs(chain, value, i + 1)

\* the chain with bail() after each of its rules
WithBail(chain) ==
    [chain EXCEPT !.items =
        [k \in 1..(2 * Len(chain.items)) |->
            IF k % 2 = 1 THEN chain.items[(k + 1) \div 2] ELSE Rule("bail", "", FALSE, 0)]]

(***************************************************************************)
(* C1: on the chain-API and schema routes the response is success exactly  *)
(* when no validation error was collected; otherwise it is the one 400     *)
(* response, success false, carrying every collected error in the order    *)
(* produced, and the place where the data would be saved is not reached.   *)
(***************************************************************************)
C1_ResponseMatchesErrors ==
    Answered =>
        LET none == \A i \in 1..Len(contexts) : contexts[i].errors = <<>>
        IN  /\ Len(responses) = 1
            /\ responses[1].success <=> none
            /\ saved <=> none
            /\ none => responses[1].status = 200
            /\ ~none =>
                 /\ responses[1].status = BadRequest
                 /\ Len(responses[1].errors) = Offset(contexts, Len(contexts) + 1)
                 /\ \A i \in 1..Len(contexts) : \A k \in 1..Len(contexts[i].errors) :
                        responses[1].errors[Offset(contexts, i) + k] = contexts[i].errors[k]

C1_Witness ==
    /\ Answered
    /\ responses[1].status = BadRequest
    /\ Len(responses[1].errors) >= 3
    /\ Cardinality(Params(responses[1].errors)) >= 2
    /\ ~saved

(***************************************************************************)
(* C2: the body {password: "tet"} is rejected with exactly two errors, in  *)
(* this order: "User name is required" on userName, then "Password should  *)
(* be at least 5 characters" on password, on both validated routes.        *)
(***************************************************************************)
Scenario1Body == [EmptyBody EXCEPT !.password = Str(<<"t", "e", "t">>)]

C2_ScenarioOneTwoErrors ==
    (Answered /\ body = Scenario1Body) =>
        /\ ~responses[1].success
        /\ Len(Sent) = 2
        /\ Sent[1].param = "userName" /\ Sent[1].msg = "User name is required"
        /\ Sent[2].param = "password" /\ Sent[2].msg = "Password should be at least 5 characters"

(***************************************************************************)
(* C3: email is optional: a body without email gets no error on email, a   *)
(* body with email "test.gmail" gets exactly one, on both validated routes.*)
(***************************************************************************)
C3_EmailOptional ==
    Answered =>
        /\ body.email = Undefined => Len(ErrorsOn(Sent, "email")) = 0
        /\ body.email = Str(<<"t", "e", "s", "t", ".", "g", "m", "a", "i", "l">>) =>
               Len(ErrorsOn(Sent, "email")) = 1

(***************************************************************************)
(* C4: the chain-API definition and the schema definition accept the same  *)
(* bodies, and reject a body with errors on the same set of fields.        *)
(***************************************************************************)
C4_ChainAndSchemaAgree ==
    Validated =>
        LET viaChain == Validate(userDataValidateChainableAPI, body, 1)
            viaSchema == Validate(checkSchema(userDataValidateSchemaBased), body, 1)
        IN  /\ (viaChain = <<>>) <=> (viaSchema = <<>>)
            /\ Params(viaChain) = Params(viaSchema)

(***************************************************************************)
(* C5: bail within one field: without bail (every field here) a field      *)
(* whose rules run yields one error per failing rule, in declaration       *)
(* order; the same field with bail yields only the first of them.          *)
(***************************************************************************)
C5_BailSemantics ==
    Answered =>
        \A i \in 1..Len(contexts) :
            LET chain == Chains(route)[i]
                value == body[chain.path]
                expected == IF Skipped(chain, value) THEN <<>> ELSE FailingMsgs(chain, value, 1)
                bailed == FullRun(WithBail(chain), value)
            IN  /\ Msgs(contexts[i].errors) = expected
                /\ Msgs(bailed) = IF expected = <<>> THEN <<>> ELSE <<expected[1]>>

C5_Witness ==
    /\ Answered
    /\ route = "chainApi"
    /\ body.password = Undefined
    /\ Len(contexts) >= 2
    /\ Len(contexts[2].errors) = 3
    /\ Len(FullRun(WithBail(Chains(route)[2]), body.password)) = 1

(***************************************************************************)
(* C6: the errors are in field declaration order at every moment of the    *)
(* request, also while the promise of the phoneNumber custom rule is       *)
(* pending and after it has settled.                                       *)
(***************************************************************************)
C6_ErrorsInFieldOrder ==
    Validated =>
        /\ \A i, j \in 1..Len(contexts) :
               i < j => FieldIndex(contexts[i].path) < FieldIndex(contexts[j].path)
        /\ \A i, j \in 1..Len(Sent) :
               i < j => FieldIndex(Sent[i].param) <= FieldIndex(Sent[j].param)
        /\ pc = "done" => \A i \in 1..Len(contexts) : ErrorsOn(Sent, contexts[i].path) = contexts[i].errors

C6_Witness ==
    /\ Answered
    /\ route = "chainApi"
    /\ ErrorsOn(Sent, "userName") # <<>>
    /\ ErrorsOn(Sent, "phoneNumber") # <<>>
    /\ Sent[Len(Sent)].msg = "Phone number should be 10 digits"

(***************************************************************************)
(* C7: every field of the schema is evaluated: the response has an error   *)
(* for each field whose rules fail, whatever failed before it.             *)
(***************************************************************************)
C7_FullCollection ==
    Answered =>
        /\ Len(contexts) = Len(FieldOrder)
        /\ \A i \in 1..Len(FieldOrder) :
               LET chain == Chains(route)[i]
                   value == body[chain.path]
               IN  (~Skipped(chain, value) /\ FailingMsgs(chain, value, 1) # <<>>)
                       => ErrorsOn(Sent, chain.path) # <<>>

C7_Witness ==
    /\ Answered
    /\ ErrorsOn(Sent, "userName") # <<>>
    /\ ErrorsOn(Sent, "password") # <<>>
    /\ ErrorsOn(Sent, "gender") # <<>>
    /\ ErrorsOn(Sent, "dateOfBirth") # <<>>

(***************************************************************************)
(* C8: validation never throws: neither userDataValidate nor the           *)
(* phoneNumber custom rule raises an exception, whatever the body.         *)
(***************************************************************************)
C8_NeverThrows ==
    \A i \in 1..Len(raised) : raised[i] \notin {"userDataValidate", "custom"}

(***************************************************************************)
(* C9: on /traditional, once userDataValidate has sent its 400 response    *)
(* control does not reach addUser: its success branch does not run and no  *)
(* second response is attempted.                                           *)
(***************************************************************************)
C9_TraditionalStopsAfterError ==
    (route = "traditional" /\ responses # <<>> /\ responses[1].errorMessage # "") =>
        /\ pc # "addUser"
        /\ ~saved
        /\ \A i \in 1..Len(raised) : raised[i] # "addUser"

(***************************************************************************)
(* C10: a phoneNumber that is present with a length other than 10 is       *)
(* reported with "Phone number should be 10 digits", a string of length    *)
(* 10 is not reported, on both validated routes.                           *)
(***************************************************************************)
C10_PhoneNumberChecked ==
    Answered =>
        /\ (body.phoneNumber.t = "string" /\ Len(body.phoneNumber.s) # PhoneNumberLength) =>
               \E i \in 1..Len(Sent) :
                   Sent[i].param = "phoneNumber" /\ Sent[i].msg = "Phone number should be 10 digits"
        /\ (body.phoneNumber.t = "string" /\ Len(body.phoneNumber.s) = PhoneNumberLength) =>
               ErrorsOn(Sent, "phoneNumber") = <<>>

=============================================================================
